---- MODULE Spec2Model ----
(***************************************************************************)
(* Health component of flaki-service: the status enumeration and its       *)
(* rendering, the escalation fold determineStatus, the aggregator          *)
(* (Component) over four health checkers, and the sentry health module     *)
(* (SentryModule.HealthChecks / sentryPingCheck / pingSentry).             *)
(*                                                                         *)
(* Three specifications share the variables:                               *)
(*   SpecPure    determineStatus and Status.String applied to bounded      *)
(*               inputs;                                                   *)
(*   SpecSentry  Component.SentryHealthChecks over a SentryModule whose    *)
(*               sentry client and HTTP client are arbitrary               *)
(*               implementations of the two interfaces;                    *)
(*   Spec        Component.AllHealthChecks over four arbitrary checkers.   *)
(*                                                                         *)
(* Encodings.  A Go string is a TLA+ string.  A Go error is a sequence of  *)
(* at most one message, the nil error being the empty sequence.  A         *)
(* *http.Response is a sequence of at most one record, nil being the empty *)
(* sequence.  A value that a call has not returned yet is the empty        *)
(* sequence, a returned value v is <<v>>.                                  *)
(***************************************************************************)
EXTENDS Integers, Sequences, FiniteSets, TLC

\* ------------------------------------------------------------------------
\* Bounds of the model.
MaxReports == 3        \* longest report sequence given to determineStatus
StatusSpan == 3        \* Status.String is applied to OK - StatusSpan .. Deactivated + StatusSpan
MaxSegs == 2           \* a DSN is made of at most this many segments
MaxDur == 1            \* largest measured duration, in nanoseconds
MaxCalls == 2          \* HealthChecks invocations per behaviour
MaxTotalReports == 2   \* reports returned by the four checkers together

\* ------------------------------------------------------------------------
\* Status (component.go:10-21)
OK == 0
KO == 1
Degraded == 2
Deactivated == 3

names == <<"OK", "KO", "Degraded", "Deactivated">>

String_Off(s) ==
    IF s < OK \/ s >= Deactivated THEN "Unknown" ELSE names[s + 1]

\* func (s Status) String() string: names is indexed from 0 in Go.
String(s) ==
    IF s < OK \/ s > Deactivated THEN "Unknown" ELSE names[s + 1]

\* The nil error and the nil *http.Response.
Nil == <<>>

\* func err(err error) string
err(e) == IF e = Nil THEN "" ELSE e[1]

\* time.Duration.String() for durations below one microsecond.
DurationString(d) == IF d = 0 THEN "0s" ELSE ToString(d) \o "ns"

\* The body of the four <Kind>HealthChecks loops: one display Report per
\* module report, in order.
Project(reports) ==
    [i \in 1..Len(reports) |->
        [Name     |-> reports[i].Name,
         Duration |-> DurationString(reports[i].Duration),
         Status   |-> String(reports[i].Status),
         Error    |-> err(reports[i].Error)]]

\* ------------------------------------------------------------------------
\* determineStatus (component.go:160-178): the loop from report i on, with
\* the local flag degraded.
RECURSIVE determineStatusLoop_Sticky(_, _, _)
determineStatusLoop_Sticky(reports, i, degraded) ==
    IF i > Len(reports)
    THEN IF degraded THEN String(Degraded) ELSE String(OK)
    ELSE IF reports[i].Status = String(Deactivated) THEN String(Deactivated)
    ELSE IF reports[i].Status = String(KO) THEN String(KO)
    ELSE IF reports[i].Status = String(Degraded) THEN String(Degraded)
    ELSE determineStatusLoop_Sticky(reports, i + 1, degraded)

RECURSIVE determineStatusLoop(_, _, _)
determineStatusLoop(reports, i, degraded) ==
    IF i > Len(reports)
    THEN IF degraded THEN String(Degraded) ELSE String(OK)
    ELSE IF reports[i].Status = String(Deactivated) THEN String(Deactivated)
    ELSE IF reports[i].Status = String(KO) THEN String(KO)
    ELSE IF reports[i].Status = String(Degraded)
         THEN determineStatusLoop(reports, i + 1, TRUE)
    ELSE determineStatusLoop(reports, i + 1, degraded)

determineStatus(reports) == determineStatusLoop(reports, 1, FALSE)

\* ------------------------------------------------------------------------
\* State.
VARIABLES
    \* SpecPure: the arguments and results of the two pure functions
    reportsIn,      \* the []Report given to determineStatus
    statusOut,      \* what determineStatus returned
    sIn,            \* the Status given to String
    sOut,           \* what String returned
    \* SpecSentry: the SentryModule, its collaborators and the call in progress
    enabled,        \* SentryModule.enabled
    dsn,            \* what the sentry client's URL() returns
    pc,             \* position of the call in progress
    url,            \* pingSentry: local url
    res,            \* pingSentry: local res
    getErr,         \* pingSentry: the error Get returned
    deferred,       \* pingSentry: defer res.Body.Close() is registered
    bodyClosed,     \* res.Body.Close() has run
    response,       \* pingSentry: local response
    pingErr,        \* sentryPingCheck: local err, the result of pingSentry
    sentryReports,  \* what SentryModule.HealthChecks returned
    out,            \* what Component.SentryHealthChecks returned
    urlCalls,       \* calls of the sentry client's URL()
    getCalls,       \* calls of the HTTP client's Get
    getArg,         \* the argument of the last Get
    calls,          \* HealthChecks invocations so far
    \* Spec: the Component and its four checkers
    checkers,       \* kind -> the reports its checker's HealthChecks returns
    allInput,       \* the checkers' reports at the last AllHealthChecks call
    allResult       \* what the last AllHealthChecks call returned

pureVars == <<reportsIn, statusOut, sIn, sOut>>
sentryVars == <<enabled, dsn, pc, url, res, getErr, deferred, bodyClosed, response,
                pingErr, sentryReports, out, urlCalls, getCalls, getArg, calls>>
compVars == <<checkers, allInput, allResult>>
vars == <<pureVars, sentryVars, compVars>>

Kinds == {"influx", "jaeger", "redis", "sentry"}

\* ------------------------------------------------------------------------
\* Inputs of the pure functions.
StatusInts == (OK - StatusSpan)..(Deactivated + StatusSpan)
StatusStrings == {"OK", "KO", "Degraded", "Deactivated", "Unknown"}

DisplayReport(st) == [Name |-> "check", Duration |-> "0s", Status |-> st, Error |-> ""]

RECURSIVE SeqsUpTo(_, _)
SeqsUpTo(S, n) ==
    IF n = 0 THEN {<<>>}
    ELSE LET shorter == SeqsUpTo(S, n - 1)
         IN  shorter \cup {Append(q, x) : q \in shorter, x \in S}

DisplayReportSeqs == SeqsUpTo({DisplayReport(st) : st \in StatusStrings}, MaxReports)

PureIdle ==
    /\ reportsIn = <<>>
    /\ statusOut = <<>>
    /\ sIn = OK
    /\ sOut = <<>>

SentryIdle ==
    /\ enabled = FALSE
    /\ dsn = ""
    /\ pc = "idle"
    /\ url = ""
    /\ res = Nil
    /\ getErr = Nil
    /\ deferred = FALSE
    /\ bodyClosed = FALSE
    /\ response = ""
    /\ pingErr = Nil
    /\ sentryReports = <<>>
    /\ out = <<>>
    /\ urlCalls = 0
    /\ getCalls = 0
    /\ getArg = <<>>
    /\ calls = 0

CompIdle ==
    /\ checkers = [k \in Kinds |-> <<>>]
    /\ allInput = [k \in Kinds |-> <<>>]
    /\ allResult = <<>>

\* ------------------------------------------------------------------------
\* SpecPure: determineStatus and Status.String on every bounded input.
InitPure ==
    /\ reportsIn \in DisplayReportSeqs
    /\ statusOut = <<>>
    /\ sIn \in StatusInts
    /\ sOut = <<>>
    /\ SentryIdle
    /\ CompIdle

CallDetermineStatus ==
    /\ statusOut = <<>>
    /\ statusOut' = <<determineStatus(reportsIn)>>
    /\ UNCHANGED <<reportsIn, sIn, sOut, sentryVars, compVars>>

CallString ==
    /\ sOut = <<>>
    /\ sOut' = <<String(sIn)>>
    /\ UNCHANGED <<reportsIn, statusOut, sIn, sentryVars, compVars>>

NextPure == CallDetermineStatus \/ CallString

SpecPure == InitPure /\ [][NextPure]_vars

\* ------------------------------------------------------------------------
\* SpecSentry: the sentry health module behind Component.SentryHealthChecks.

\* The DSNs the sentry client may be configured with: concatenations of at
\* most MaxSegs segments, so that the marker "/api/" occurs not at all,
\* once, twice and overlapping itself.
Segments == {"/api/", "api/", "h", "/ap"}

RECURSIVE Dsns(_)
Dsns(n) ==
    IF n = 0 THEN {""}
    ELSE LET shorter == Dsns(n - 1)
         IN  shorter \cup {d \o g : d \in shorter, g \in Segments}

\* net/http: StatusOK, and the fields of a Response that pingSentry reads.
StatusOK == 200
Responses ==
    {[StatusCode |-> 200, Status |-> "200 OK", Body |-> b, ReadErr |-> e] :
        b \in {"ok", "not ok", ""}, e \in {Nil, <<"unexpected EOF">>}}
    \cup
    {[StatusCode |-> 503, Status |-> "503 Service Unavailable", Body |-> b, ReadErr |-> Nil] :
        b \in {"ok", "not ok"}}

\* What an implementation of sentryHTTPClient.Get may return: a response or
\* nil, an error or nil, in every combination.  closed: the body of the
\* response handed back is already closed (as net/http does for a response
\* returned together with an error).
GetOutcomes ==
    {[res |-> r, err |-> e, closed |-> c] :
        r \in {Nil} \cup {<<x>> : x \in Responses},
        e \in {Nil, <<"connection refused">>},
        c \in BOOLEAN}

\* A Get outcome as the caller can tell it apart.
IsGetOutcome(o) ==
    /\ o \in GetOutcomes
    /\ o.closed => (o.res /= Nil /\ o.err /= Nil)

\* strings.LastIndex(s, substr): the 0-based index of the last occurrence,
\* -1 when there is none; the search goes down from i.
RECURSIVE IndexFrom(_, _, _)
IndexFrom(s, substr, i) ==
    IF i + Len(substr) > Len(s) THEN -1
    ELSE IF SubSeq(s, i + 1, i + Len(substr)) = substr THEN i
    ELSE IndexFrom(s, substr, i + 1)

RECURSIVE LastIndexFrom(_, _, _)
LastIndexFrom(s, substr, i) ==
    IF i < 0 THEN -1
    ELSE IF SubSeq(s, i + 1, i + Len(substr)) = substr THEN i
    ELSE LastIndexFrom(s, substr, i - 1)

LastIndex_First(s, substr) == IndexFrom(s, substr, 0)

LastIndex(s, substr) == LastIndexFrom(s, substr, Len(s) - Len(substr))

\* pingSentry, lines 95-98: the health url built from the dsn.
healthURL(d) ==
    LET idx == LastIndex(d, "/api/")
    IN  IF idx /= -1 THEN SubSeq(d, 1, idx) \o "/_health" ELSE ""

\* errors.Wrap(err, message)
Wrap(e, message) == <<message \o ": " \o e[1]>>

\* pingSentry, lines 128-132: the verdict on the body read.
bodyError_Contains(body) ==
    IF body \in {"ok", "not ok"} THEN Nil
    ELSE <<"response should be 'ok' but is: " \o body>>

bodyError(body) ==
    IF body = "ok" THEN Nil
    ELSE <<"response should be 'ok' but is: " \o body>>

InitSentry ==
    /\ PureIdle
    /\ CompIdle
    /\ enabled \in BOOLEAN
    /\ dsn \in Dsns(MaxSegs)
    /\ pc = "idle"
    /\ url = ""
    /\ res = Nil
    /\ getErr = Nil
    /\ deferred = FALSE
    /\ bodyClosed = FALSE
    /\ response = ""
    /\ pingErr = Nil
    /\ sentryReports = <<>>
    /\ out = <<>>
    /\ urlCalls = 0
    /\ getCalls = 0
    /\ getArg = <<>>
    /\ calls = 0

\* The locals of a fresh call.
FreshCall ==
    /\ res' = Nil
    /\ getErr' = Nil
    /\ deferred' = FALSE
    /\ bodyClosed' = FALSE
    /\ response' = ""
    /\ pingErr' = Nil
    /\ out' = <<>>
    /\ getArg' = <<>>

\* sentryPingCheck, lines 60-65: the report of a disabled module; Duration
\* and Error keep their zero values.
DeactivatedReport == [Name |-> "ping", Duration |-> 0, Status |-> Deactivated, Error |-> Nil]

HealthChecks_EagerURL ==
    /\ pc = "idle"
    /\ calls < MaxCalls
    /\ calls' = calls + 1
    /\ FreshCall
    /\ urlCalls' = urlCalls + 1
    /\ IF ~enabled
       THEN /\ sentryReports' = <<DeactivatedReport>>
            /\ pc' = "report"
            /\ url' = ""
       ELSE /\ sentryReports' = <<>>
            /\ url' = healthURL(dsn)
            /\ pc' = "get"
    /\ UNCHANGED <<enabled, dsn, getCalls, pureVars, compVars>>

\* Component.SentryHealthChecks calls c.sentry.HealthChecks, which calls
\* sentryPingCheck: a disabled module returns its report at once; an
\* enabled one calls sentry.URL() and enters pingSentry, up to the call of
\* Get.
HealthChecks ==
    /\ pc = "idle"
    /\ calls < MaxCalls
    /\ calls' = calls + 1
    /\ FreshCall
    /\ IF ~enabled
       THEN /\ sentryReports' = <<DeactivatedReport>>
            /\ pc' = "report"
            /\ url' = ""
            /\ UNCHANGED urlCalls
       ELSE /\ sentryReports' = <<>>
            /\ urlCalls' = urlCalls + 1
            /\ url' = healthURL(dsn)
            /\ pc' = "get"
    /\ UNCHANGED <<enabled, dsn, getCalls, pureVars, compVars>>

\* pingSentry, lines 101-111: the Get, the return on its error, the defer.
Get ==
    /\ pc = "get"
    /\ getCalls' = getCalls + 1
    /\ getArg' = <<url>>
    /\ \E o \in GetOutcomes :
        /\ IsGetOutcome(o)
        /\ res' = o.res
        /\ getErr' = o.err
        /\ bodyClosed' = o.closed
        /\ IF o.err /= Nil
           THEN /\ pingErr' = o.err
                /\ deferred' = FALSE
                /\ pc' = "returned"
           ELSE /\ pingErr' = Nil
                /\ deferred' = (o.res /= Nil)
                /\ pc' = "status"
    /\ UNCHANGED <<enabled, dsn, url, response, sentryReports, out, urlCalls, calls,
                   pureVars, compVars>>

\* A return of pingSentry runs the deferred res.Body.Close().
ReturnFromPing(e) ==
    /\ pingErr' = e
    /\ bodyClosed' = (bodyClosed \/ deferred)
    /\ pc' = "returned"

\* pingSentry, lines 113-116: res.StatusCode is read through res, which
\* panics on a nil res; nothing recovers the panic.
CheckStatus ==
    /\ pc = "status"
    /\ IF res = Nil
       THEN /\ pc' = "panic"
            /\ UNCHANGED <<pingErr, bodyClosed>>
       ELSE IF res[1].StatusCode /= StatusOK
       THEN ReturnFromPing(<<"http response status code: " \o res[1].Status>>)
       ELSE /\ pc' = "read"
            /\ UNCHANGED <<pingErr, bodyClosed>>
    /\ UNCHANGED <<enabled, dsn, url, res, getErr, deferred, response, sentryReports, out,
                   urlCalls, getCalls, getArg, calls, pureVars, compVars>>

\* pingSentry, lines 118-126: ioutil.ReadAll(res.Body).
ReadBody ==
    /\ pc = "read"
    /\ IF res[1].ReadErr /= Nil
       THEN /\ ReturnFromPing(res[1].ReadErr)
            /\ UNCHANGED response
       ELSE /\ response' = res[1].Body
            /\ pc' = "compare"
            /\ UNCHANGED <<pingErr, bodyClosed>>
    /\ UNCHANGED <<enabled, dsn, url, res, getErr, deferred, sentryReports, out,
                   urlCalls, getCalls, getArg, calls, pureVars, compVars>>

\* pingSentry, lines 128-132.
CompareBody ==
    /\ pc = "compare"
    /\ ReturnFromPing(bodyError(response))
    /\ UNCHANGED <<enabled, dsn, url, res, getErr, deferred, response, sentryReports, out,
                   urlCalls, getCalls, getArg, calls, pureVars, compVars>>

\* sentryPingCheck, lines 72-89, after pingSentry returned: the duration
\* measured, the error wrapped, the report.
PingReport ==
    /\ pc = "returned"
    /\ \E duration \in 0..MaxDur :
        sentryReports' =
            << [Name     |-> "ping",
                Duration |-> duration,
                Status   |-> IF pingErr /= Nil THEN KO ELSE OK,
                Error    |-> IF pingErr /= Nil
                             THEN Wrap(pingErr, "could not ping sentry")
                             ELSE Nil] >>
    /\ pc' = "report"
    /\ UNCHANGED <<enabled, dsn, url, res, getErr, deferred, bodyClosed, response, pingErr,
                   out, urlCalls, getCalls, getArg, calls, pureVars, compVars>>

\* Component.SentryHealthChecks, lines 126-136: the reports of the module
\* mapped to display reports.
SentryHealthChecks ==
    /\ pc = "report"
    /\ out' = <<Project(sentryReports)>>
    /\ pc' = "idle"
    /\ UNCHANGED <<enabled, dsn, url, res, getErr, deferred, bodyClosed, response, pingErr,
                   sentryReports, urlCalls, getCalls, getArg, calls, pureVars, compVars>>

NextSentry ==
    \/ HealthChecks
    \/ Get
    \/ CheckStatus
    \/ ReadBody
    \/ CompareBody
    \/ PingReport
    \/ SentryHealthChecks

SpecSentry == InitSentry /\ [][NextSentry]_vars

\* ------------------------------------------------------------------------
\* Spec: Component.AllHealthChecks over four checkers, each an arbitrary
\* implementation of its HealthChecks interface.

\* A report of a checker (InfluxReport, JaegerReport, RedisReport and
\* SentryReport have the same fields).
ModuleReport(st) ==
    [Name     |-> "check",
     Duration |-> 0,
     Status   |-> st,
     Error    |-> IF st = KO THEN <<"failed">> ELSE Nil]

\* What a checker may return: any statuses, one out of range included.
ModuleReportSeqs ==
    SeqsUpTo({ModuleReport(st) : st \in OK..(Deactivated + 1)}, MaxTotalReports)

TotalReports(c) ==
    Len(c["influx"]) + Len(c["jaeger"]) + Len(c["redis"]) + Len(c["sentry"])

\* Component.InfluxHealthChecks, .JaegerHealthChecks, .RedisHealthChecks and
\* .SentryHealthChecks on a component whose checkers return c.
InfluxHealthChecks(c) == Project(c["influx"])
JaegerHealthChecks(c) == Project(c["jaeger"])
RedisHealthChecks(c) == Project(c["redis"])
SentryHealthChecksOf(c) == Project(c["sentry"])

\* reports[key] = value on a Go map.
Put(m, key, value) ==
    [x \in (DOMAIN m) \cup {key} |-> IF x = key THEN value ELSE m[x]]

AllHealthChecksMap_CopyPaste(c) ==
    LET r1 == Put(<<>>, "influx", determineStatus(InfluxHealthChecks(c)))
        r2 == Put(r1, "jaeger", determineStatus(JaegerHealthChecks(c)))
        r3 == Put(r2, "redis", determineStatus(JaegerHealthChecks(c)))
        r4 == Put(r3, "sentry", determineStatus(SentryHealthChecksOf(c)))
    IN  r4

\* Component.AllHealthChecks, lines 141-148: the map after the four
\* assignments.
AllHealthChecksMap(c) ==
    LET r1 == Put(<<>>, "influx", determineStatus(InfluxHealthChecks(c)))
        r2 == Put(r1, "jaeger", determineStatus(JaegerHealthChecks(c)))
        r3 == Put(r2, "redis", determineStatus(RedisHealthChecks(c)))
        r4 == Put(r3, "sentry", determineStatus(SentryHealthChecksOf(c)))
    IN  r4

Init ==
    /\ PureIdle
    /\ SentryIdle
    /\ CompIdle

\* The environment: between two AllHealthChecks calls the reports returned
\* by the checker of one kind change.
SetChecker ==
    /\ checkers = allInput
    /\ \E k \in Kinds, q \in ModuleReportSeqs :
        /\ q /= checkers[k]
        /\ checkers' = [checkers EXCEPT ![k] = q]
        /\ TotalReports(checkers') <= MaxTotalReports
    /\ UNCHANGED <<allInput, allResult, pureVars, sentryVars>>

AllHealthChecks ==
    /\ allResult' = <<AllHealthChecksMap(checkers)>>
    /\ allInput' = checkers
    /\ UNCHANGED <<checkers, pureVars, sentryVars>>

Next == SetChecker \/ AllHealthChecks

Spec == Init /\ [][Next]_vars

\* ========================================================================
\* Properties of determineStatus and Status.String (SpecPure).

HasStatus(reports, st) == \E i \in 1..Len(reports) : reports[i].Status = st

\* C1: whenever some report of the sequence given to determineStatus is
\* Deactivated, at any position and whatever precedes it, the status
\* returned is "Deactivated".
C1_DeactivatedAnywhereWins ==
    (statusOut /= <<>> /\ HasStatus(reportsIn, "Deactivated"))
        => statusOut = <<"Deactivated">>

\* C2: for a sequence with no Deactivated report, determineStatus returns
\* "KO" if some report is KO (also when a Degraded report precedes it),
\* otherwise "Degraded" if some report is Degraded, otherwise "OK"; the
\* empty sequence gives "OK".
C2_EscalationWithoutDeactivated ==
    (statusOut /= <<>> /\ ~HasStatus(reportsIn, "Deactivated"))
        => statusOut = << IF HasStatus(reportsIn, "KO") THEN "KO"
                          ELSE IF HasStatus(reportsIn, "Degraded") THEN "Degraded"
                          ELSE "OK" >>

C2_Witness ==
    /\ statusOut = <<"KO">>
    /\ Len(reportsIn) = 3
    /\ reportsIn[1].Status = "Degraded"
    /\ reportsIn[2].Status = "OK"
    /\ reportsIn[3].Status = "KO"

\* The orderings of a report sequence.
Orderings(reports) ==
    LET n == Len(reports)
        perms == {p \in [1..n -> 1..n] : \A i, j \in 1..n : p[i] = p[j] => i = j}
    IN  {[i \in 1..n |-> reports[p[i]]] : p \in perms}

\* The highest status present under Deactivated > KO > Degraded > OK.
HighestPresent(reports) ==
    IF HasStatus(reports, "Deactivated") THEN "Deactivated"
    ELSE IF HasStatus(reports, "KO") THEN "KO"
    ELSE IF HasStatus(reports, "Degraded") THEN "Degraded"
    ELSE "OK"

\* C3: determineStatus is permutation-invariant: every ordering of the
\* reports gives the same status, the highest one present under the
\* precedence Deactivated > KO > Degraded > OK.
C3_PermutationInvariant ==
    statusOut /= <<>> =>
        /\ statusOut = <<HighestPresent(reportsIn)>>
        /\ \A o \in Orderings(reportsIn) : determineStatus(o) = statusOut[1]

\* C9: Status.String returns "OK", "KO", "Degraded", "Deactivated" for the
\* four defined values, "Unknown" for every integer below OK or above
\* Deactivated, and never the empty string.
C9_StringTotal ==
    sOut /= <<>> =>
        /\ sOut[1] /= ""
        /\ sIn = 0 => sOut[1] = "OK"
        /\ sIn = 1 => sOut[1] = "KO"
        /\ sIn = 2 => sOut[1] = "Degraded"
        /\ sIn = 3 => sOut[1] = "Deactivated"
        /\ (sIn < 0 \/ sIn > 3) => sOut[1] = "Unknown"

C9_Witness ==
    /\ sIn = 4
    /\ sOut = <<"Unknown">>

\* ========================================================================
\* Properties of the sentry health module (SpecSentry).

\* C4: a module constructed with enabled = false returns, at every
\* HealthChecks invocation, exactly one report named "ping" with status
\* Deactivated, zero duration and nil error, and never calls the sentry
\* client's URL() nor the HTTP client's Get.
C4_DisabledNeverProbes ==
    ~enabled =>
        /\ urlCalls = 0
        /\ getCalls = 0
        /\ pc \in {"idle", "report"}
        /\ calls > 0 =>
            /\ Len(sentryReports) = 1
            /\ sentryReports[1].Name = "ping"
            /\ sentryReports[1].Status = 3
            /\ sentryReports[1].Duration = 0
            /\ sentryReports[1].Error = <<>>

C4_Witness ==
    /\ ~enabled
    /\ calls = 2
    /\ pc = "idle"
    /\ out /= <<>>
    /\ out[1][1].Status = "Deactivated"

\* The Get of the call in progress answered 200 with a readable body b.
GotBody(b) ==
    /\ getErr = <<>>
    /\ res /= <<>>
    /\ res[1].StatusCode = 200
    /\ res[1].ReadErr = <<>>
    /\ res[1].Body = b

\* C5: for an enabled module the ping report follows from the outcome of
\* the single Get: a transport error, a status other than 200 and a 200
\* whose body is not exactly "ok" each give KO with a non-nil error, a 200
\* whose body is exactly "ok" gives OK with a nil error; the status is OK
\* exactly when the error is nil.
C5_PingOutcome ==
    (enabled /\ sentryReports /= <<>>) =>
        LET r == sentryReports[1]
            ko == r.Status = 1 /\ r.Error /= <<>>
        IN  /\ Len(sentryReports) = 1
            /\ getCalls = calls
            /\ getErr /= <<>> => ko
            /\ (getErr = <<>> /\ res /= <<>> /\ res[1].StatusCode /= 200) => ko
            /\ (\E b \in {"not ok", ""} : GotBody(b)) => ko
            /\ GotBody("ok") => (r.Status = 0 /\ r.Error = <<>>)
            /\ r.Status = 0 <=> r.Error = <<>>

C5_Witness ==
    /\ enabled
    /\ pc = "idle"
    /\ GotBody("not ok")
    /\ sentryReports /= <<>>
    /\ sentryReports[1].Status = 1
    /\ sentryReports[1].Error =
           <<"could not ping sentry: response should be 'ok' but is: not ok">>

\* C6: whenever Get handed back a response, its body is closed once
\* pingSentry has returned, on every exit path (transport error, status
\* other than 200, read error, body mismatch, success).
C6_BodyClosedOnReturn ==
    (pc \in {"returned", "report", "idle"} /\ res /= <<>>) => bodyClosed

\* C8: whatever Get returns (an error with or without a response, a
\* response of any status and body, a nil response with a nil error), the
\* call does not abort: HealthChecks returns a report.
C8_NeverAborts ==
    pc /= "panic"

\* The marker occurs in d at the 0-based index i.
MarkerAt(d, i) ==
    /\ i >= 0
    /\ i + 5 <= Len(d)
    /\ SubSeq(d, i + 1, i + 5) = "/api/"

\* C10: the health url is the DSN cut at the last occurrence of "/api/"
\* followed by "/_health", and the empty string when the DSN has no
\* marker; the Get is issued with that url also when it is empty, and the
\* report is then decided by the outcome of that Get alone.
C10_HealthURL ==
    (enabled /\ calls > 0) =>
        /\ \A i \in 0..Len(dsn) :
              (MarkerAt(dsn, i) /\ \A j \in (i + 1)..Len(dsn) : ~MarkerAt(dsn, j))
                  => url = SubSeq(dsn, 1, i) \o "/_health"
        /\ (\A i \in 0..Len(dsn) : ~MarkerAt(dsn, i)) => url = ""
        /\ pc /= "get" => (getArg = <<url>> /\ getCalls = calls)
        /\ (url = "" /\ sentryReports /= <<>>) =>
              (sentryReports[1].Status = 0 <=> GotBody("ok"))

C10_Witness ==
    /\ enabled
    /\ dsn = "h/ap"
    /\ url = ""
    /\ getArg = <<"">>
    /\ GotBody("ok")
    /\ sentryReports /= <<>>
    /\ sentryReports[1].Status = 0

\* ========================================================================
\* Properties of Component.AllHealthChecks (Spec).

\* C7: AllHealthChecks returns a map with exactly the keys "influx",
\* "jaeger", "redis" and "sentry", and from one call to the next the entry
\* of every kind whose checker returned the same reports is unchanged.
C7_PerKindIndependence ==
    [][ allResult' /= <<>> =>
          /\ DOMAIN allResult'[1] = {"influx", "jaeger", "redis", "sentry"}
          /\ allResult /= <<>> =>
                \A k \in Kinds :
                    allInput'[k] = allInput[k] => allResult'[1][k] = allResult[1][k]
      ]_vars

C7_Witness ==
    /\ allResult /= <<>>
    /\ checkers = allInput
    /\ Len(allInput["jaeger"]) = 1
    /\ allInput["jaeger"][1].Status = 0
    /\ Len(allInput["sentry"]) = 1
    /\ allInput["sentry"][1].Status = 1
    /\ allResult[1] = [influx |-> "OK", jaeger |-> "OK", redis |-> "OK", sentry |-> "KO"]

====
